---- MODULE Spec2Model ----
(***************************************************************************)
(* findToPackv3.py: scan of a version-organised directory tree.            *)
(*                                                                         *)
(* A name (of a directory or a file) is a sequence of one-character        *)
(* strings, so that the regular expression of parse_version, the           *)
(* str.strip call and the substring test of should_exclude_directory are   *)
(* computed character by character.  A path is the sequence of the names   *)
(* below base_path.  A packaging Version of a D.D.D.D string is its tuple  *)
(* of four integers.  Python's None is the value None below.               *)
(***************************************************************************)
EXTENDS Integers, Sequences, FiniteSets, TLC

VARIABLES
    pc,                    \* "start", "walk", "done" (find_latest_versions); "call", "returned" (a single function call)
    tree,                  \* the file system below base_path: [dirs, files], sets of paths
    unlistable,            \* the directories whose os.listdir raises
    from_version,          \* lower bound, a Version or None
    to_version,            \* upper bound, a Version or None
    excluded_dirs,         \* set of names (substrings to exclude)
    components_to_search,  \* [all |-> TRUE] for the string "all", else [all |-> FALSE, names |-> the list's members]
    version_dirs,          \* the entries of version_dirs not yet handed to process_directory
    stack,                 \* the active calls of process_directory, innermost last
    components,            \* the result dictionary: component -> [version, info, directory]
    visited,               \* history: the file events handled by the second loop of process_directory
    first,                 \* history: <<component, version, info>> -> directory of its first accepted occurrence
    called,                \* history: the paths process_directory was called with
    run,                   \* number of the current call of find_latest_versions
    prev,                  \* the dictionary returned by the previous call of find_latest_versions
    arg,                   \* argument of a single function call
    ret                    \* its return value

vars == <<pc, tree, unlistable, from_version, to_version, excluded_dirs, components_to_search,
          version_dirs, stack, components, visited, first, called, run, prev, arg, ret>>

None == <<"None">>

-----------------------------------------------------------------------------
(* Characters and strings                                                  *)

\* The characters of the model in code-point order ('-' 45, '.' 46, '0'-'9', '_' 95, 'a'-'z').
Chars == <<"-", ".", "0", "1", "2", "3", "4", "5", "6", "7", "8", "9", "_",
           "a", "b", "c", "d", "e", "f", "g", "h", "i", "j", "k", "l", "m",
           "n", "o", "p", "q", "r", "s", "t", "u", "v", "w", "x", "y", "z">>

Ord(c) == CHOOSE i \in 1..Len(Chars) : Chars[i] = c

Digits == {"0", "1", "2", "3", "4", "5", "6", "7", "8", "9"}

DigitValue(c) == Ord(c) - Ord("0")

\* Python's str > str: the first differing character decides, a proper prefix is smaller.
StrGt(a, b) ==
    \E i \in 1..Len(a) :
        /\ \A j \in 1..(i - 1) : j <= Len(b) /\ a[j] = b[j]
        /\ \/ i > Len(b)
           \/ (a[i] # b[i] /\ Ord(a[i]) > Ord(b[i]))

\* Python's `sub in s` for strings.
IsSubstring(sub, s) ==
    \E i \in 0..(Len(s) - Len(sub)) : SubSeq(s, i + 1, i + Len(sub)) = sub

\* Faulty variant of strip: only the leading run is removed (str.lstrip).
strip_leading_only(s, ch) ==
    LET keep == {i \in 1..Len(s) : s[i] # ch}
    IN  IF keep = {} THEN <<>>
        ELSE SubSeq(s, CHOOSE i \in keep : \A k \in keep : i <= k, Len(s))

\* str.strip(ch): the run of ch at the start and the run of ch at the end are removed.
strip(s, ch) ==
    LET keep == {i \in 1..Len(s) : s[i] # ch}
    IN  IF keep = {} THEN <<>>
        ELSE SubSeq(s, CHOOSE i \in keep : \A k \in keep : i <= k,
                       CHOOSE j \in keep : \A k \in keep : j >= k)

\* int(text) for a run of decimal digits (leading zeros carry no value).
RECURSIVE IntOf(_)
IntOf(s) == IF s = <<>> THEN 0
            ELSE IntOf(SubSeq(s, 1, Len(s) - 1)) * 10 + DigitValue(s[Len(s)])

-----------------------------------------------------------------------------
(* Versions                                                                *)

\* The last index of the maximal run of digits of s that starts at i (i - 1 when there is none).
DigitRunEnd(s, i) ==
    CHOOSE j \in (i - 1)..Len(s) :
        /\ \A k \in i..j : s[k] \in Digits
        /\ j = Len(s) \/ s[j + 1] \notin Digits

\* re.match(r'(\d+\.\d+\.\d+\.\d+)(.*)', s): the ends of the four digit groups, or <<>> when
\* the pattern does not match at the start of s.
MatchVersion(s) ==
    LET e1 == DigitRunEnd(s, 1)
        e2 == DigitRunEnd(s, e1 + 2)
        e3 == DigitRunEnd(s, e2 + 2)
        e4 == DigitRunEnd(s, e3 + 2)
        Dot(e) == e + 1 <= Len(s) /\ s[e + 1] = "."
    IN  IF /\ e1 >= 1 /\ Dot(e1)
           /\ e2 >= e1 + 2 /\ Dot(e2)
           /\ e3 >= e2 + 2 /\ Dot(e3)
           /\ e4 >= e3 + 2
        THEN <<e1, e2, e3, e4>>
        ELSE <<>>

\* packaging's Version(text) for a D.D.D.D text whose groups end at e: the release tuple.
Version(s, e) ==
    <<IntOf(SubSeq(s, 1, e[1])),
      IntOf(SubSeq(s, e[1] + 2, e[2])),
      IntOf(SubSeq(s, e[2] + 2, e[3])),
      IntOf(SubSeq(s, e[3] + 2, e[4]))>>

parse_version(version_string) ==
    LET e == MatchVersion(version_string)
    IN  IF e # <<>>
        THEN [version |-> Version(version_string, e),
              info    |-> strip(SubSeq(version_string, e[4] + 1, Len(version_string)), "-")]
        ELSE [version |-> None, info |-> version_string]

\* Version.__gt__ / __lt__ on release tuples of equal length.
VersionGt(a, b) ==
    \E i \in 1..4 : (\A j \in 1..(i - 1) : a[j] = b[j]) /\ a[i] > b[i]

VersionLt(a, b) == VersionGt(b, a)

\* The outcome of a call: a returned boolean, or an exception (None < Version is a TypeError).
Return(b) == [raised |-> FALSE, value |-> b]

Raise == [raised |-> TRUE, value |-> FALSE]

\* Faulty variant of is_version_in_range: the bounds are exclusive (<= and >= for < and >).
is_version_in_range_exclusive(version, from_v, to_v) ==
    IF from_v # None /\ version = None THEN Raise
    ELSE IF from_v # None /\ ~VersionGt(version, from_v) THEN Return(FALSE)
    ELSE IF to_v # None /\ version = None THEN Raise
    ELSE IF to_v # None /\ ~VersionLt(version, to_v) THEN Return(FALSE)
    ELSE Return(TRUE)

is_version_in_range(version, from_v, to_v) ==
    IF from_v # None /\ version = None THEN Raise
    ELSE IF from_v # None /\ VersionLt(version, from_v) THEN Return(FALSE)
    ELSE IF to_v # None /\ version = None THEN Raise
    ELSE IF to_v # None /\ VersionGt(version, to_v) THEN Return(FALSE)
    ELSE Return(TRUE)

-----------------------------------------------------------------------------
(* The names used in the inputs                                            *)

d_1_0_0_0 == <<"1", ".", "0", ".", "0", ".", "0">>

d_1_2_0_0 == <<"1", ".", "2", ".", "0", ".", "0">>

d_1_1_0_0_rc1 == <<"1", ".", "1", ".", "0", ".", "0", "-", "r", "c", "1">>

d_latest == <<"l", "a", "t", "e", "s", "t">>

d_1_0_0_1 == <<"1", ".", "0", ".", "0", ".", "1">>

d_2_0_0_0 == <<"2", ".", "0", ".", "0", ".", "0">>

d_sub == <<"s", "u", "b">>

d_bin == <<"b", "i", "n">>

d_tmp_x == <<"t", "m", "p", "_", "x">>

d_deep == <<"d", "e", "e", "p">>

d_1_0_0_0_a == <<"1", ".", "0", ".", "0", ".", "0", "-", "a">>

d_1_0_0_0_b == <<"1", ".", "0", ".", "0", ".", "0", "-", "b">>

d_1_0_0_0__a == <<"1", ".", "0", ".", "0", ".", "0", "-", "-", "a">>

d_1_3_0_0 == <<"1", ".", "3", ".", "0", ".", "0">>

f_agent == <<"a", "g", "e", "n", "t", ".", "e", "x", "e">>

f_server == <<"s", "e", "r", "v", "e", "r", ".", "e", "x", "e">>

f_readme == <<"r", "e", "a", "d", "m", "e", ".", "t", "x", "t">>

x_tmp == <<"t", "m", "p">>

Agent == <<"a", "g", "e", "n", "t">>

Server == <<"s", "e", "r", "v", "e", "r">>

Tools == <<"t", "o", "o", "l", "s">>

-----------------------------------------------------------------------------
(* Inputs of find_latest_versions                                          *)

\* component_mapping, in the insertion order of the dictionary; agent.exe is listed twice.
component_mapping ==
    <<[component |-> Agent,  filenames |-> {f_agent}],
      [component |-> Server, filenames |-> {f_server, f_agent}],
      [component |-> Tools,  filenames |-> {}]>>

\* 1.0.0.0, 1.2.0.0, 1.1.0.0-rc1 and latest, each with agent.exe; a plain file named 1.3.0.0.
TreeLatest ==
    [dirs  |-> {<<d_1_0_0_0>>, <<d_1_2_0_0>>, <<d_1_1_0_0_rc1>>, <<d_latest>>},
     files |-> {<<d_1_0_0_0, f_agent>>, <<d_1_2_0_0, f_agent>>, <<d_1_1_0_0_rc1, f_agent>>,
                <<d_latest, f_agent>>, <<d_1_0_0_0, f_server>>, <<d_1_2_0_0, f_readme>>,
                <<d_1_3_0_0>>}]

\* Nested folders: one named like a version, one excluded by "tmp", two siblings with the same file.
TreeNested ==
    [dirs  |-> {<<d_1_0_0_0>>, <<d_1_0_0_0, d_2_0_0_0>>,
                <<d_1_0_0_1>>, <<d_1_0_0_1, d_sub>>, <<d_1_0_0_1, d_bin>>,
                <<d_1_0_0_1, d_sub, d_tmp_x>>, <<d_1_0_0_1, d_sub, d_tmp_x, d_deep>>},
     files |-> {<<d_1_0_0_0, d_2_0_0_0, f_agent>>, <<d_1_0_0_0, f_server>>,
                <<d_1_0_0_1, f_agent>>, <<d_1_0_0_1, d_sub, f_agent>>, <<d_1_0_0_1, d_bin, f_agent>>,
                <<d_1_0_0_1, d_sub, d_tmp_x, f_readme>>,
                <<d_1_0_0_1, d_sub, d_tmp_x, d_deep, f_server>>}]

\* 1.0.0.0/agent.exe and 1.0.0.1/sub/agent.exe.
TreeScenario ==
    [dirs  |-> {<<d_1_0_0_0>>, <<d_1_0_0_1>>, <<d_1_0_0_1, d_sub>>},
     files |-> {<<d_1_0_0_0, f_agent>>, <<d_1_0_0_1, d_sub, f_agent>>}]

\* One numeric version under three qualifiers, two of which parse to the same qualifier.
TreeQualifier ==
    [dirs  |-> {<<d_1_0_0_0_a>>, <<d_1_0_0_0_b>>, <<d_1_0_0_0__a>>},
     files |-> {<<d_1_0_0_0_a, f_agent>>, <<d_1_0_0_0_b, f_agent>>, <<d_1_0_0_0__a, f_agent>>,
                <<d_1_0_0_0_a, f_server>>, <<d_1_0_0_0__a, f_server>>}]

Trees == {TreeLatest, TreeNested, TreeScenario, TreeQualifier}

\* The (from_version, to_version) pairs; None is an absent bound.
Ranges ==
    {<<None, None>>, <<<<1, 0, 0, 1>>, None>>, <<None, <<1, 1, 0, 0>>>>, <<<<1, 1, 0, 0>>, <<1, 2, 0, 0>>>>}

\* The values of excluded_dirs; {} stands for None and for the empty list, both falsy.
Exclusions == {{}, {x_tmp}, {d_sub, d_deep}}

\* The values of components_to_search: the string "all", or a list of component names.
SearchSets == {[all |-> TRUE, names |-> {}], [all |-> FALSE, names |-> {Agent}]}

\* At most this many directories fail to list in one behaviour.
MaxUnlistable == 1

\* find_latest_versions is called this many times on the same tree.
MaxRuns == 2

-----------------------------------------------------------------------------
(* The file system                                                         *)

IsPrefix(p, q) == Len(p) <= Len(q) /\ SubSeq(q, 1, Len(p)) = p

\* os.listdir(path), as a set: the order of the list is any order.
listdir(path) ==
    {q[Len(q)] : q \in {r \in tree.dirs \cup tree.files : Len(r) = Len(path) + 1 /\ IsPrefix(path, r)}}

isdir(path) == path \in tree.dirs

isfile(path) == path \in tree.files

basename(path) == path[Len(path)]

-----------------------------------------------------------------------------
(* find_latest_versions                                                    *)

find_component_name(filename, mapping) ==
    LET hits == {i \in 1..Len(mapping) : filename \in mapping[i].filenames}
    IN  IF hits = {} THEN None
        ELSE mapping[CHOOSE i \in hits : \A k \in hits : i <= k].component

\* The list returned by find_version_directories(base_path, from_version, to_version), as a set.
find_version_directories ==
    {<<item>> : item \in
        {i \in listdir(<<>>) :
            /\ isdir(<<i>>)
            /\ parse_version(i).version # None
            /\ is_version_in_range(parse_version(i).version, from_version, to_version).value}}

\* Faulty variant of should_exclude_directory: the name must equal an excluded string.
should_exclude_directory_exact(directory_name) ==
    /\ excluded_dirs # {}
    /\ \E excluded \in excluded_dirs : excluded = directory_name

should_exclude_directory(directory_name) ==
    /\ excluded_dirs # {}
    /\ \E excluded \in excluded_dirs : IsSubstring(excluded, directory_name)

\* Faulty variant of IsNewer: the qualifier is not compared.
IsNewer_version_only(parent_version, parent_info, current) ==
    VersionGt(parent_version, current.version)

\* Faulty variant of IsNewer: an exact tie replaces the entry too (>= for > on the qualifier).
IsNewer_or_equal(parent_version, parent_info, current) ==
    \/ VersionGt(parent_version, current.version)
    \/ (parent_version = current.version /\ ~StrGt(current.info, parent_info))

\* Faulty variant of IsNewer: the last occurrence visited always replaces the entry.
IsNewer_last_wins(parent_version, parent_info, current) == TRUE

\* Lines 111-112: the new occurrence replaces the stored entry.
IsNewer(parent_version, parent_info, current) ==
    \/ VersionGt(parent_version, current.version)
    \/ (parent_version = current.version /\ StrGt(parent_info, current.info))

\* Faulty variant of process_directory: every directory's own name is parsed again.
process_directory_reparse(stk, current_path, parent_version, parent_info) ==
    IF current_path \in unlistable THEN stk
    ELSE
        LET items   == listdir(current_path)
            parsed  == parse_version(basename(current_path))
            take    == parsed.version # None
            version == IF take THEN parsed.version ELSE parent_version
            info    == IF take THEN parsed.info ELSE parent_info
        IN  IF version # None /\ ~is_version_in_range(version, from_version, to_version).value
            THEN stk
            ELSE Append(stk, [current_path   |-> current_path,
                              parent_version |-> version,
                              parent_info    |-> info,
                              dirs  |-> {i \in items : isdir(current_path \o <<i>>)},
                              files |-> {i \in items : isfile(current_path \o <<i>>)}])

\* Faulty variant of process_directory: the exception of os.listdir is not caught in the call that
\* raised it but unwinds every active call, up to the loop over the version directories.
process_directory_unwind(stk, current_path, parent_version, parent_info) ==
    IF current_path \in unlistable THEN <<>>
    ELSE
        LET items   == listdir(current_path)
            reparse == parent_version = None \/ parent_info = None
            parsed  == parse_version(basename(current_path))
            take    == reparse /\ parsed.version # None
            version == IF take THEN parsed.version ELSE parent_version
            info    == IF take THEN parsed.info ELSE parent_info
        IN  IF version # None /\ ~is_version_in_range(version, from_version, to_version).value
            THEN stk
            ELSE Append(stk, [current_path   |-> current_path,
                              parent_version |-> version,
                              parent_info    |-> info,
                              dirs  |-> {i \in items : isdir(current_path \o <<i>>)},
                              files |-> {i \in items : isfile(current_path \o <<i>>)}])

\* The call process_directory(current_path, parent_version, parent_info) up to its first loop:
\* the stack after the call has listed the directory, settled its version and checked the
\* range.  A failing os.listdir is caught inside the call, which then returns.
process_directory(stk, current_path, parent_version, parent_info) ==
    IF current_path \in unlistable THEN stk
    ELSE
        LET items   == listdir(current_path)
            reparse == parent_version = None \/ parent_info = None
            parsed  == parse_version(basename(current_path))
            take    == reparse /\ parsed.version # None
            version == IF take THEN parsed.version ELSE parent_version
            info    == IF take THEN parsed.info ELSE parent_info
        IN  IF version # None /\ ~is_version_in_range(version, from_version, to_version).value
            THEN stk
            ELSE Append(stk, [current_path   |-> current_path,
                              parent_version |-> version,
                              parent_info    |-> info,
                              dirs  |-> {i \in items : isdir(current_path \o <<i>>)},
                              files |-> {i \in items : isfile(current_path \o <<i>>)}])

\* Faulty variant of record_file: components_to_search is not consulted.
record_file_unfiltered(comps, top, item) ==
    LET component_name == find_component_name(item, component_mapping)
        entry == [version   |-> top.parent_version,
                  info      |-> top.parent_info,
                  directory |-> top.current_path]
    IN  IF component_name # None /\ component_name # <<>>
        THEN IF component_name \notin DOMAIN comps
             THEN (component_name :> entry) @@ comps
             ELSE IF VersionGt(top.parent_version, comps[component_name].version)
                     \/ (top.parent_version = comps[component_name].version
                         /\ StrGt(top.parent_info, comps[component_name].info))
                  THEN (component_name :> entry) @@ comps
                  ELSE comps
        ELSE comps

\* Lines 104-113: the dictionary after the file `item` of the frame `top` has been handled.
record_file(comps, top, item) ==
    LET component_name == find_component_name(item, component_mapping)
        entry == [version   |-> top.parent_version,
                  info      |-> top.parent_info,
                  directory |-> top.current_path]
    IN  IF /\ component_name # None
           /\ component_name # <<>>
           /\ (components_to_search.all \/ component_name \in components_to_search.names)
        THEN IF component_name \notin DOMAIN comps
             THEN (component_name :> entry) @@ comps
             ELSE IF IsNewer(top.parent_version, top.parent_info, comps[component_name])
                  THEN (component_name :> entry) @@ comps
                  ELSE comps
        ELSE comps

Top == stack[Len(stack)]

Rest == SubSeq(stack, 1, Len(stack) - 1)

inputs == <<tree, unlistable, from_version, to_version, excluded_dirs, components_to_search>>

Init ==
    /\ pc = "start"
    /\ tree \in Trees
    /\ unlistable \in {u \in SUBSET tree.dirs : Cardinality(u) <= MaxUnlistable}
    /\ \E r \in Ranges : from_version = r[1] /\ to_version = r[2]
    /\ excluded_dirs \in Exclusions
    /\ components_to_search \in SearchSets
    /\ version_dirs = {}
    /\ stack = <<>>
    /\ components = <<>>
    /\ visited = {}
    /\ first = <<>>
    /\ called = {}
    /\ run = 1
    /\ prev = <<>>
    /\ arg = <<>>
    /\ ret = <<>>

\* Lines 56-57: the dictionary is created and the version directories are collected.
FindVersionDirectories ==
    /\ pc = "start"
    /\ pc' = "walk"
    /\ components' = <<>>
    /\ version_dirs' = find_version_directories
    /\ UNCHANGED <<inputs, stack, visited, first, called, run, prev, arg, ret>>

\* Lines 118-119: the next version directory is handed to process_directory.
ProcessVersionDir ==
    /\ pc = "walk"
    /\ stack = <<>>
    /\ \E version_dir \in version_dirs :
        /\ version_dirs' = version_dirs \ {version_dir}
        /\ stack' = process_directory(stack, version_dir, None, None)
        /\ called' = called \cup {version_dir}
    /\ UNCHANGED <<pc, inputs, components, visited, first, run, prev, arg, ret>>

\* Lines 91-98: the first loop reaches a subdirectory that is not excluded and recurses.
Recurse ==
    /\ pc = "walk"
    /\ stack # <<>>
    /\ \E item \in Top.dirs :
        /\ ~should_exclude_directory(item)
        /\ stack' = process_directory(Append(Rest, [Top EXCEPT !.dirs = @ \ {item}]),
                                      Top.current_path \o <<item>>,
                                      Top.parent_version, Top.parent_info)
        /\ called' = called \cup {Top.current_path \o <<item>>}
    /\ UNCHANGED <<pc, inputs, version_dirs, components, visited, first, run, prev, arg, ret>>

\* Lines 94-96: the first loop reaches an excluded subdirectory and continues.
SkipExcluded ==
    /\ pc = "walk"
    /\ stack # <<>>
    /\ \E item \in Top.dirs :
        /\ should_exclude_directory(item)
        /\ stack' = Append(Rest, [Top EXCEPT !.dirs = @ \ {item}])
    /\ UNCHANGED <<pc, inputs, version_dirs, components, visited, first, called, run, prev, arg, ret>>

\* Lines 101-113: after the first loop, the second loop handles one file.
ProcessFile ==
    /\ pc = "walk"
    /\ stack # <<>>
    /\ Top.dirs = {}
    /\ \E item \in Top.files :
        LET c == find_component_name(item, component_mapping)
            k == <<c, Top.parent_version, Top.parent_info>>
        IN  /\ stack' = Append(Rest, [Top EXCEPT !.files = @ \ {item}])
            /\ components' = record_file(components, Top, item)
            /\ visited' = visited \cup {[directory |-> Top.current_path, file |-> item,
                                         version |-> Top.parent_version, info |-> Top.parent_info]}
            /\ first' = IF c \in DOMAIN components' /\ k \notin DOMAIN first
                        THEN (k :> Top.current_path) @@ first
                        ELSE first
    /\ UNCHANGED <<pc, inputs, version_dirs, called, run, prev, arg, ret>>

\* Both loops of the innermost call are over: it returns.
ReturnFromDirectory ==
    /\ pc = "walk"
    /\ stack # <<>>
    /\ Top.dirs = {}
    /\ Top.files = {}
    /\ stack' = Rest
    /\ UNCHANGED <<pc, inputs, version_dirs, components, visited, first, called, run, prev, arg, ret>>

\* Lines 121-122: every version directory was processed; the dictionary is returned.
Finish ==
    /\ pc = "walk"
    /\ stack = <<>>
    /\ version_dirs = {}
    /\ pc' = "done"
    /\ UNCHANGED <<inputs, version_dirs, stack, components, visited, first, called, run, prev, arg, ret>>

\* find_latest_versions is called again with the same arguments on the same tree.
Rerun ==
    /\ pc = "done"
    /\ run < MaxRuns
    /\ pc' = "start"
    /\ run' = run + 1
    /\ prev' = components
    /\ components' = <<>>
    /\ visited' = {}
    /\ first' = <<>>
    /\ called' = {}
    /\ UNCHANGED <<inputs, version_dirs, stack, arg, ret>>

Next ==
    \/ FindVersionDirectories
    \/ ProcessVersionDir
    \/ Recurse
    \/ SkipExcluded
    \/ ProcessFile
    \/ ReturnFromDirectory
    \/ Finish
    \/ Rerun

Spec == Init /\ [][Next]_vars

-----------------------------------------------------------------------------
(* Single calls of parse_version and is_version_in_range                   *)

\* The longest suffix appended to a head in the names given to parse_version.
MaxTailLen == 3

TailChars == {"-", "a", ".", "1"}

Tails == UNION {[1..k -> TailChars] : k \in 0..MaxTailLen}

Groups == {<<"0">>, <<"1", "2">>, <<"0", "1">>}

\* Four dot-separated groups, and one head of three groups only.
Heads ==
    {a \o <<".">> \o b \o <<".">> \o c \o <<".">> \o d : a \in Groups, b \in Groups, c \in Groups, d \in Groups}
        \cup {<<"1", ".", "0", ".", "0">>}

ParseNames == {h \o t : h \in Heads, t \in Tails} \cup Tails

RangeVersions == {<<0, 9, 9, 9>>, <<1, 0, 0, 0>>, <<1, 0, 0, 1>>, <<1, 1, 0, 0>>, <<1, 2, 0, 0>>, <<2, 0, 0, 0>>}

Idle ==
    /\ tree = [dirs |-> {}, files |-> {}]
    /\ unlistable = {}
    /\ from_version = None
    /\ to_version = None
    /\ excluded_dirs = {}
    /\ components_to_search = [all |-> TRUE, names |-> {}]
    /\ version_dirs = {}
    /\ stack = <<>>
    /\ components = <<>>
    /\ visited = {}
    /\ first = <<>>
    /\ called = {}
    /\ run = 1
    /\ prev = <<>>

walk == <<tree, unlistable, from_version, to_version, excluded_dirs, components_to_search,
          version_dirs, stack, components, visited, first, called, run, prev>>

InitParse ==
    /\ Idle
    /\ pc = "call"
    /\ arg \in ParseNames
    /\ ret = <<>>

CallParseVersion ==
    /\ pc = "call"
    /\ pc' = "returned"
    /\ ret' = parse_version(arg)
    /\ UNCHANGED <<walk, arg>>

NextParse == CallParseVersion

SpecParse == InitParse /\ [][NextParse]_vars

InitRange ==
    /\ Idle
    /\ pc = "call"
    /\ arg \in [version : RangeVersions \cup {None},
                from_v  : RangeVersions \cup {None},
                to_v    : RangeVersions \cup {None}]
    /\ ret = <<>>

CallIsVersionInRange ==
    /\ pc = "call"
    /\ pc' = "returned"
    /\ ret' = is_version_in_range(arg.version, arg.from_v, arg.to_v)
    /\ UNCHANGED <<walk, arg>>

NextRange == CallIsVersionInRange

SpecRange == InitRange /\ [][NextRange]_vars

-----------------------------------------------------------------------------
(* Properties                                                              *)

\* (v1, q1) is greater than (v2, q2): numeric tuple first, then qualifier string.
PairGt(v1, q1, v2, q2) == VersionGt(v1, v2) \/ (v1 = v2 /\ StrGt(q1, q2))

\* The file name belongs to a component that is searched for.
Accepted(file) ==
    LET c == find_component_name(file, component_mapping)
    IN  c # None /\ (components_to_search.all \/ c \in components_to_search.names)

\* The visited occurrences of the files of component c.
Occurrences(c) ==
    {ev \in visited : Accepted(ev.file) /\ find_component_name(ev.file, component_mapping) = c}

NoBounds == from_version = None /\ to_version = None

\* The name parses as a four-part version that lies within the bounds that are present.
RetainedName(name) ==
    LET v == parse_version(name).version
    IN  /\ v # None
        /\ from_version = None \/ ~VersionLt(v, from_version)
        /\ to_version = None \/ ~VersionGt(v, to_version)

ExcludedName(name) == \E x \in excluded_dirs : IsSubstring(x, name)

\* The directory is reached by the walk: below a retained version directory, with no excluded
\* folder on the way and no listing failure on the way or at the directory itself.
Walked(d) ==
    /\ d \in tree.dirs
    /\ RetainedName(d[1])
    /\ \A i \in 2..Len(d) : ~ExcludedName(d[i])
    /\ \A k \in 1..Len(d) : SubSeq(d, 1, k) \notin unlistable

ExpectedFiles == {f \in tree.files : Len(f) >= 2 /\ Walked(SubSeq(f, 1, Len(f) - 1))}

VisitedFiles == {ev.directory \o <<ev.file>> : ev \in visited}

TopLevelDirs == {d \in tree.dirs : Len(d) = 1}

\* C1: when find_latest_versions has completed, the (version, qualifier) stored for a component
\* is the maximum over the occurrences of its files visited during the walk, whatever the order
\* of the walk; occurrences under 1.0.0.0, 1.2.0.0 and 1.1.0.0-rc1 leave the 1.2.0.0 entry.
C1_LatestIsMaximum ==
    pc = "done" =>
        /\ \A c \in DOMAIN components :
            /\ \E ev \in Occurrences(c) :
                ev.version = components[c].version /\ ev.info = components[c].info
            /\ \A ev \in Occurrences(c) :
                ~PairGt(ev.version, ev.info, components[c].version, components[c].info)
        /\ (tree = TreeLatest /\ NoBounds /\ unlistable = {}) =>
            /\ Agent \in DOMAIN components
            /\ components[Agent] = [version |-> <<1, 2, 0, 0>>, info |-> <<>>,
                                    directory |-> <<d_1_2_0_0>>]

C1_Witness ==
    /\ pc = "done"
    /\ tree = TreeLatest /\ NoBounds /\ unlistable = {}
    /\ Cardinality(Occurrences(Agent)) = 3
    /\ components[Agent].version = <<1, 2, 0, 0>>

\* C2: a top-level directory is walked if and only if its name parses as a four-part version
\* within the bounds that are present (bounds inclusive); nothing below any other top-level
\* directory is visited or reported, and the files of a walked, listable one are all visited.
C2_TopLevelFilter ==
    pc = "done" =>
        \A d \in TopLevelDirs :
            /\ d \in called <=> RetainedName(d[1])
            /\ ~RetainedName(d[1]) =>
                /\ \A ev \in visited : ev.directory[1] # d[1]
                /\ \A c \in DOMAIN components : components[c].directory[1] # d[1]
            /\ (RetainedName(d[1]) /\ d \notin unlistable) =>
                \A f \in tree.files : (Len(f) = 2 /\ f[1] = d[1]) => f \in VisitedFiles

C2_Witness ==
    /\ pc = "done"
    /\ tree = TreeLatest
    /\ from_version = <<1, 1, 0, 0>> /\ to_version = <<1, 2, 0, 0>>
    /\ <<d_1_1_0_0_rc1>> \in called /\ <<d_1_2_0_0>> \in called
    /\ <<d_1_0_0_0>> \notin called /\ <<d_latest>> \notin called
    /\ <<d_1_2_0_0, f_agent>> \in VisitedFiles

\* C3: every file below a retained version directory is recorded with the (version, qualifier)
\* parsed from the name of that top-level directory, at any depth; the tree 1.0.0.0/agent.exe,
\* 1.0.0.1/sub/agent.exe gives Agent -> (1.0.0.1, "", 1.0.0.1/sub).
C3_VersionInherited ==
    /\ \A ev \in visited :
        LET p == parse_version(ev.directory[1])
        IN  ev.version = p.version /\ ev.info = p.info
    /\ \A c \in DOMAIN components :
        LET p == parse_version(components[c].directory[1])
        IN  components[c].version = p.version /\ components[c].info = p.info
    /\ (pc = "done" /\ tree = TreeScenario /\ NoBounds /\ excluded_dirs = {} /\ unlistable = {}) =>
        /\ DOMAIN components = {Agent}
        /\ components[Agent] = [version |-> <<1, 0, 0, 1>>, info |-> <<>>,
                                directory |-> <<d_1_0_0_1, d_sub>>]

C3_Witness ==
    /\ tree = TreeNested
    /\ \E ev \in visited :
        /\ ev.directory = <<d_1_0_0_0, d_2_0_0_0>>
        /\ ev.file = f_agent
        /\ ev.version = <<1, 0, 0, 0>>
    /\ Agent \in DOMAIN components
    /\ components[Agent].directory = <<d_1_0_0_0, d_2_0_0_0>>

\* C4: no file is visited, and no entry of the result is reported, in a subdirectory whose name
\* contains an excluded substring or anywhere beneath one.
C4_ExcludedContributesNothing ==
    /\ \A ev \in visited : \A i \in 2..Len(ev.directory) : ~ExcludedName(ev.directory[i])
    /\ \A c \in DOMAIN components :
        \A i \in 2..Len(components[c].directory) : ~ExcludedName(components[c].directory[i])

C4_Witness ==
    /\ pc = "done"
    /\ tree = TreeNested
    /\ excluded_dirs = {x_tmp}
    /\ unlistable = {}
    /\ NoBounds
    /\ <<d_1_0_0_1, d_sub>> \in called
    /\ <<d_1_0_0_1, d_sub, d_tmp_x>> \notin called
    /\ <<d_1_0_0_1, d_sub, f_agent>> \in VisitedFiles

AllDigits(name, i, j) == i <= j /\ \A x \in i..j : name[x] \in Digits

\* The ways the name starts with four integer groups: <<p1, p2, p3, k>> with the three dots at
\* p1, p2 and p3 and the fourth group ending at k (and not cut short).
GroupSplits(name) ==
    UNION {UNION {UNION {
        {<<p1, p2, p3, k>> : k \in {x \in (p3 + 1)..Len(name) :
                                      /\ AllDigits(name, p3 + 1, x)
                                      /\ x = Len(name) \/ name[x + 1] \notin Digits}}
        : p3 \in {x \in (p2 + 2)..Len(name) : name[x] = "." /\ AllDigits(name, p2 + 1, x - 1)}}
        : p2 \in {x \in (p1 + 2)..Len(name) : name[x] = "." /\ AllDigits(name, p1 + 1, x - 1)}}
        : p1 \in {x \in 2..Len(name) : name[x] = "." /\ AllDigits(name, 1, x - 1)}}

\* The values of the four groups of a split.
GroupValues(name, g) ==
    <<IntOf(SubSeq(name, 1, g[1] - 1)), IntOf(SubSeq(name, g[1] + 1, g[2] - 1)),
      IntOf(SubSeq(name, g[2] + 1, g[3] - 1)), IntOf(SubSeq(name, g[3] + 1, g[4]))>>

\* What follows the four groups of a split.
Remainder(name, g) == SubSeq(name, g[4] + 1, Len(name))

Hyphens(n) == [i \in 1..n |-> "-"]

\* q is rest without its leading run of hyphens, and nothing else changed.
LeadingRunRemoved(rest, q) ==
    /\ \E n \in 0..Len(rest) : rest = Hyphens(n) \o q
    /\ q = <<>> \/ q[1] # "-"

\* q is rest without its leading run and without its trailing run of hyphens.
BothRunsRemoved(rest, q) ==
    /\ \E n \in 0..Len(rest), m \in 0..Len(rest) : rest = Hyphens(n) \o q \o Hyphens(m)
    /\ q = <<>> \/ (q[1] # "-" /\ q[Len(q)] # "-")

\* C5 as stated: for a name that starts with four dot-separated integer groups, parse_version
\* returns their tuple and, as qualifier, the remainder with exactly its leading run of hyphens
\* removed (trailing hyphens kept).
C5_LeadingHyphensOnly ==
    pc = "returned" =>
        \A g \in GroupSplits(arg) :
            /\ ret.version = GroupValues(arg, g)
            /\ LeadingRunRemoved(Remainder(arg, g), ret.info)

\* C5 amended: for a name that starts with four dot-separated integer groups, parse_version
\* returns their tuple and, as qualifier, the remainder with its leading run and its trailing
\* run of hyphens removed and nothing else changed; an empty remainder gives the empty qualifier.
C5_BothEndsStripped ==
    pc = "returned" =>
        \A g \in GroupSplits(arg) :
            /\ ret.version = GroupValues(arg, g)
            /\ BothRunsRemoved(Remainder(arg, g), ret.info)
            /\ Remainder(arg, g) = <<>> => ret.info = <<>>

C5_Witness ==
    /\ pc = "returned"
    /\ GroupSplits(arg) = {<<2, 5, 8, 9>>}
    /\ arg = <<"0", ".", "1", "2", ".", "0", "1", ".", "0", "-", "a", "-">>
    /\ ret = [version |-> <<0, 12, 1, 0>>, info |-> <<"a">>]

\* C9: for an absent numeric version is_version_in_range returns false, whatever bounds are
\* present or absent; it neither returns true nor raises.
C9_AbsentVersionIsOutOfRange ==
    (pc = "returned" /\ arg.version = None) => (~ret.raised /\ ret.value = FALSE)

\* The components that own an accepted file among the visited ones.
VisitedComponents ==
    {find_component_name(ev.file, component_mapping) : ev \in {o \in visited : Accepted(o.file)}}

\* C6: a failing directory listing does not abort the walk: no entry recorded from a visited
\* file is lost or lowered, and when find_latest_versions returns, the files visited are exactly
\* those outside the subtrees that failed to list (siblings and the other version directories
\* included).
C6_ListingFailureIsLocal ==
    /\ DOMAIN components = VisitedComponents
    /\ \A c \in DOMAIN components :
        \A ev \in Occurrences(c) :
            ~PairGt(ev.version, ev.info, components[c].version, components[c].info)
    /\ pc = "done" => VisitedFiles = ExpectedFiles

C6_Witness ==
    /\ pc = "done"
    /\ tree = TreeNested
    /\ NoBounds
    /\ unlistable = {<<d_1_0_0_1, d_sub>>}
    /\ <<d_1_0_0_1, d_sub>> \in called
    /\ <<d_1_0_0_1, d_bin, f_agent>> \in VisitedFiles
    /\ <<d_1_0_0_0, d_2_0_0_0, f_agent>> \in VisitedFiles
    /\ Agent \in DOMAIN components
    /\ components[Agent].directory = <<d_1_0_0_1, d_bin>>

\* C7 as stated: a second run over the unchanged tree with the same arguments returns the same
\* components with the same (version, qualifier, directory), whatever the listing orders.
C7_SameResult ==
    (pc = "done" /\ run >= 2) => components = prev

\* The directories in which the maximal (version, qualifier) of component c was visited.
MaximalDirectories(c) ==
    {ev.directory : ev \in {o \in Occurrences(c) :
        o.version = components[c].version /\ o.info = components[c].info}}

\* C7 amended: a second run over the unchanged tree with the same arguments returns the same
\* components with the same (version, qualifier); the directory is one in which that maximal
\* occurrence lies, and is the same in both runs when there is only one such directory.
C7_SameVersions ==
    (pc = "done" /\ run >= 2) =>
        /\ DOMAIN components = DOMAIN prev
        /\ \A c \in DOMAIN components :
            /\ components[c].version = prev[c].version
            /\ components[c].info = prev[c].info
            /\ prev[c].directory \in MaximalDirectories(c)
            /\ Cardinality(MaximalDirectories(c)) = 1 => components[c].directory = prev[c].directory

C7_Witness ==
    /\ pc = "done"
    /\ run = 2
    /\ tree = TreeNested
    /\ Agent \in DOMAIN components
    /\ prev[Agent].directory = <<d_1_0_0_1, d_sub>>
    /\ components[Agent].directory = <<d_1_0_0_1, d_bin>>
    /\ components[Agent].version = prev[Agent].version
    /\ Server \in DOMAIN components
    /\ components[Server] = prev[Server]

\* The file name is listed under no component of the mapping.
Unmapped(file) == \A i \in 1..Len(component_mapping) : file \notin component_mapping[i].filenames

\* C8: every key of the result is a component of the mapping that lists the name of a visited
\* file and, unless everything is searched, is in the search set; handling a file that maps to
\* no component, or to a component outside the search set, leaves the result unchanged.
C8_KeysAreSearchedComponents ==
    /\ [](\A c \in DOMAIN components :
            /\ \E i \in 1..Len(component_mapping) :
                /\ component_mapping[i].component = c
                /\ \E ev \in visited : ev.file \in component_mapping[i].filenames
            /\ components_to_search.all \/ c \in components_to_search.names)
    /\ [][\A ev \in visited' \ visited :
            (\/ Unmapped(ev.file)
             \/ /\ ~components_to_search.all
                /\ find_component_name(ev.file, component_mapping) \notin components_to_search.names)
            => components' = components]_vars

C8_Witness ==
    /\ tree = TreeLatest
    /\ ~components_to_search.all
    /\ <<d_1_0_0_0, f_server>> \in VisitedFiles
    /\ <<d_1_2_0_0, f_readme>> \in VisitedFiles
    /\ <<d_1_0_0_0, f_agent>> \in VisitedFiles
    /\ DOMAIN components = {Agent}

\* C10: a stored entry is replaced only by a strictly greater (version, qualifier), so the
\* directory reported is that of the first maximal occurrence visited; subdirectories being
\* processed before the files of a directory, a directory is not the one reported when one of
\* its walked descendants holds a file of the same component.
C10_FirstMaximalOccurrenceWins ==
    /\ [][\A c \in DOMAIN components \cap DOMAIN components' :
            components'[c] # components[c] =>
                PairGt(components'[c].version, components'[c].info,
                       components[c].version, components[c].info)]_vars
    /\ [](\A c \in DOMAIN components :
            /\ <<c, components[c].version, components[c].info>> \in DOMAIN first
            /\ components[c].directory = first[<<c, components[c].version, components[c].info>>]
            /\ \A ev \in Occurrences(c) :
                ~(Len(ev.directory) > Len(components[c].directory)
                  /\ IsPrefix(components[c].directory, ev.directory)))

C10_Witness ==
    /\ pc = "done"
    /\ tree = TreeNested
    /\ <<d_1_0_0_1, f_agent>> \in VisitedFiles
    /\ <<d_1_0_0_1, d_sub, f_agent>> \in VisitedFiles
    /\ <<d_1_0_0_1, d_bin, f_agent>> \in VisitedFiles
    /\ Agent \in DOMAIN components
    /\ components[Agent].directory = <<d_1_0_0_1, d_sub>>

====
